---------------------------- MODULE Spec2Model ----------------------------
(***************************************************************************)
(* Wizard-Site: the live editor's synchronisation engine.                  *)
(*                                                                         *)
(*   - the Document Runtime: the script PreviewFrame injects into the      *)
(*     iframe (hover / select / drag / edit handlers, inbound commands,    *)
(*     getCleanHTML and syncCode);                                         *)
(*   - the Host Controller: App (generatedCode, isEditing, history) and    *)
(*     PreviewFrame (internalCodeRef, iframeKey, the effects, srcDoc);     *)
(*   - the History Store: saveToHistory, remove, clearHistory over         *)
(*     localStorage.                                                       *)
(*                                                                         *)
(* A markup string is modelled by the document it denotes, in canonical    *)
(* form: its elements numbered in document order.  Two markup strings are  *)
(* equal exactly when these values are equal.                              *)
(***************************************************************************)
EXTENDS Integers, Sequences, FiniteSets, TLC

(***************************************************************************)
(* Bounds of the model.                                                    *)
(***************************************************************************)
\* element slots of a document (elements of the markup plus added ones)
MaxElems == 2
\* messages in flight in one direction
MaxInFlight == 1
\* runs of injection whitespace a document may carry when it emits a snapshot
MaxPad == 1
\* identities of history records (generations that succeed in one behaviour)
MaxGen == 14
\* hard reloads of one PreviewFrame
MaxKey == 2
\* the largest capacity of a store that is short of room
MaxQuota == 6

(***************************************************************************)
(* Nodes of the live document tree.                                        *)
(***************************************************************************)
Null == 0
Body == -1
Html == -2
Elems == 1..MaxElems
Nodes == Elems \cup {Body}

StyleProps ==
  {"outline", "outlineOffset", "opacity", "pointerEvents", "backgroundColor", "color"}
NoStyle == [p \in StyleProps |-> ""]
\* an element slot that holds no element
NoEl == [tag |-> "", text |-> "", cls |-> "", ce |-> "", style |-> NoStyle]

HoverOutline == "2px dashed #8b5cf6"
HoverOffset == "-2px"
SelectOutline == "3px solid #8b5cf6"
SelectOffset == "-3px"

Range(s) == {s[i] : i \in DOMAIN s}
NoKids == [n \in Nodes |-> <<>>]

(***************************************************************************)
(* Tree helpers (the DOM operations the runtime calls).                    *)
(***************************************************************************)
\* node.parentNode
ParentNode(k, n) ==
  IF \E p \in Nodes : n \in Range(k[p])
    THEN CHOOSE p \in Nodes : n \in Range(k[p])
    ELSE Null

IndexOf(s, n) == CHOOSE i \in DOMAIN s : s[i] = n

\* node.nextSibling
NextSibling(k, n) ==
  LET p == ParentNode(k, n) IN
  IF p = Null THEN Null
  ELSE LET i == IndexOf(k[p], n) IN
       IF i < Len(k[p]) THEN k[p][i + 1] ELSE Null

RECURSIVE Descendants(_, _)
Descendants(k, n) ==
  Range(k[n]) \cup UNION {Descendants(k, c) : c \in Range(k[n])}

Attached(k) == Descendants(k, Body)

\* the elements in document order
RECURSIVE PreOrder(_, _)
PreOrder(k, s) ==
  IF s = <<>> THEN <<>>
  ELSE <<Head(s)>> \o PreOrder(k, k[Head(s)]) \o PreOrder(k, Tail(s))

Without(s, n) == SelectSeq(s, LAMBDA x : x # n)

\* node.remove(): unlink the node from its parent (its subtree stays below it)
Unlink(k, n) == [p \in Nodes |-> Without(k[p], n)]

\* parent.insertBefore(node, ref), for a node that is no ancestor of parent
InsertBefore(k, parent, node, ref) ==
  LET r == IF ref = node THEN NextSibling(k, node) ELSE ref
      k1 == Unlink(k, node)
      s == k1[parent]
      i == IF r = Null THEN Len(s) + 1 ELSE IndexOf(s, r)
  IN [k1 EXCEPT ![parent] = SubSeq(s, 1, i - 1) \o <<node>> \o SubSeq(s, i, Len(s))]


(***************************************************************************)
(* Markup.  A markup value is [kids, el, cursor, pad, script]: the tree,   *)
(* the elements' attributes, the inline cursor style of the body, the      *)
(* number of whitespace runs that script injections left at the end of the *)
(* body, and whether the runtime script is part of the text.               *)
(***************************************************************************)
Plain(tag, text) == [NoEl EXCEPT !.tag = tag, !.text = text]

Texts == {"Hi", "Yo"}

\* <body><div><p>Hi</p></div></body>
GenNested ==
  [kids |-> [NoKids EXCEPT ![Body] = <<1>>, ![1] = <<2>>],
   el |-> [n \in Elems |-> IF n = 1 THEN Plain("div", "") ELSE
                           IF n = 2 THEN Plain("p", "Hi") ELSE NoEl],
   cursor |-> "", pad |-> 0, script |-> FALSE]

\* <body><p>Hi</p></body>, the scenario of the spec's section 8
GenSingle ==
  [kids |-> [NoKids EXCEPT ![Body] = <<1>>],
   el |-> [n \in Elems |-> IF n = 1 THEN Plain("p", "Hi") ELSE NoEl],
   cursor |-> "", pad |-> 0, script |-> FALSE]

\* <body><p style="outline: 1px solid red">Hi</p><h2 contenteditable="true">Yo</h2></body>
GenStyled ==
  [kids |-> [NoKids EXCEPT ![Body] = <<1, 2>>],
   el |-> [n \in Elems |->
            IF n = 1 THEN [Plain("p", "Hi") EXCEPT !.style.outline = "1px solid red"] ELSE
            IF n = 2 THEN [Plain("h2", "Yo") EXCEPT !.ce = "true"] ELSE NoEl],
   cursor |-> "", pad |-> 0, script |-> FALSE]

\* what generateWebsiteFromImage can return
Generated == {GenNested, GenSingle, GenStyled}

\* generatedCode before the first generation: ''
NoCode == [kids |-> NoKids, el |-> [n \in Elems |-> NoEl], cursor |-> "", pad |-> 0,
           script |-> FALSE]

\* (a runtime script that always starts with edit mode off)
EditorScriptStartsOff(editing) == [isEditingMode |-> FALSE]

\* the runtime script as PreviewFrame renders it: its text embeds isEditing
EditorScript(editing) == [isEditingMode |-> editing]

\* getFinalCode(rawCode): the script and the whitespace around it go before </body>
\* (or to the end of the text, which the parser places in the body as well)
GetFinalCode(rawCode, editing) ==
  [code |-> [rawCode EXCEPT !.pad = @ + 1, !.script = TRUE],
   script |-> EditorScript(editing)]

\* the document the iframe parses from srcDoc
ParseDocument(src) == src.code

(***************************************************************************)
(* getCleanHTML: clone the document, remove the runtime script, strip the  *)
(* outline styles and the contenteditable attribute, serialise.            *)
(***************************************************************************)
\* (a getCleanHTML that forgets the contenteditable attribute)
CleanElementKeepEditable(e) ==
  IF e.style.outline # ""
    THEN [e EXCEPT !.style.outline = "", !.style.outlineOffset = ""]
    ELSE e

\* the forEach body of getCleanHTML, for one element
CleanElement(e) ==
  LET e1 == IF e.style.outline # ""
              THEN [e EXCEPT !.style.outline = "", !.style.outlineOffset = ""]
              ELSE e
  IN IF e1.ce = "true" \/ e1.ce # "" THEN [e1 EXCEPT !.ce = ""] ELSE e1

GetCleanHTML(d) ==
  LET order == PreOrder(d.kids, d.kids[Body])
      Renum(s) == [i \in 1..Len(s) |-> IndexOf(order, s[i])]
  IN [kids |-> [p \in Nodes |->
                  IF p = Body THEN Renum(d.kids[Body])
                  ELSE IF p <= Len(order) THEN Renum(d.kids[order[p]])
                  ELSE <<>>],
      el |-> [i \in Elems |->
                IF i <= Len(order) THEN CleanElement(d.el[order[i]]) ELSE NoEl],
      cursor |-> d.cursor,
      pad |-> d.pad,
      script |-> FALSE]


(***************************************************************************)
(* State.                                                                  *)
(***************************************************************************)
VARIABLES
  \* ---- Document Runtime (the script's closure and its document)
  runtime,            \* "none": no iframe; "loading": the document is parsed and the
                      \* script has not run yet; "ready": the listeners are registered
  document,           \* the live document tree
  selectedElement,
  isDragging,
  start,              \* <<startX, startY>>
  currentDragElement,
  isEditingMode,
  \* ---- the message channel
  toHost,             \* window.parent.postMessage: runtime -> controller
  toRuntime,          \* contentWindow.postMessage: controller -> runtime
  \* ---- PreviewFrame
  mounted,            \* PreviewFrame is rendered (generator view, preview tab, some code)
  code,               \* the code prop of the last render
  internalCodeRef,
  iframeKey,          \* the iframeKey state
  frame,              \* the iframe as last committed: [key, srcDoc]
  codeEffect,         \* the [code] effect is scheduled and has not run
  modeEffect,         \* the [isEditing, iframeKey] effect is scheduled and has not run
  \* ---- App
  view,
  activeTab,
  generatedCode,
  isEditing,
  selectedElementData,
  status,
  history,
  closureHistory,     \* `history` as the running handleGenerate closed over it
  nextId,             \* stands for Date.now() / Math.random(): the next record's identity
  \* ---- localStorage
  stored,             \* the list under 'wizard-history'
  quota               \* the store rejects a list of more than `quota` records

rtVars ==
  <<runtime, document, selectedElement, isDragging, start, currentDragElement,
    isEditingMode>>
chanVars == <<toHost, toRuntime>>
frameVars == <<mounted, code, internalCodeRef, iframeKey, frame, codeEffect, modeEffect>>
appVars == <<view, activeTab, generatedCode, isEditing, selectedElementData, status>>
histVars == <<history, closureHistory, nextId, stored, quota>>
vars == <<rtVars, chanVars, frameVars, appVars, histVars>>

(***************************************************************************)
(* The Document Runtime.                                                   *)
(***************************************************************************)
\* pointer positions (clientX, clientY) the model draws from
Points == {<<0, 0>>, <<10, 0>>, <<11, 0>>, <<0, 11>>}
DragThreshold == 10
Abs(x) == IF x < 0 THEN -x ELSE x

\* the targets a pointer event can have: an attached element, the body, the root
Targets == Attached(document.kids) \cup {Body, Html}

\* Detached elements live on while the closure references them (or a node of their
\* detached tree); the others are garbage and their slots are free again.
RECURSIVE RootOf(_, _)
RootOf(k, n) == IF ParentNode(k, n) \in Elems THEN RootOf(k, ParentNode(k, n)) ELSE n

Collect(d, refs) ==
  LET live == Attached(d.kids) \cup
              UNION {{RootOf(d.kids, r)} \cup Descendants(d.kids, RootOf(d.kids, r))
                       : r \in refs \cap Elems}
  IN [d EXCEPT !.kids = [p \in Nodes |-> IF p \in live \cup {Body} THEN d.kids[p] ELSE <<>>],
               !.el = [n \in Elems |-> IF n \in live THEN d.el[n] ELSE NoEl]]

\* syncCode(): post the clean markup to the parent
SyncCode(d) ==
  [type |-> "CODE_UPDATED_FROM_EDITOR", code |-> GetCleanHTML(d), source |-> frame.key]

\* updateSelectionUI(el)
UpdateSelectionUI(d, e) ==
  LET cleared == [n \in Elems |->
                    IF n # e /\ n \in Attached(d.kids)
                      THEN [d.el[n] EXCEPT !.style.outline = "", !.style.outlineOffset = ""]
                      ELSE d.el[n]]
  IN IF e # Null /\ isEditingMode
       THEN [d EXCEPT !.el = [cleared EXCEPT ![e].style.outline = SelectOutline,
                                             ![e].style.outlineOffset = SelectOffset]]
       ELSE [d EXCEPT !.el = cleared]

Ready == runtime = "ready"
\* room for one more message to the parent
CanPost == Len(toHost) < MaxInFlight
\* ... and for the whitespace that the echo of one more snapshot will add
CanSync == CanPost /\ document.pad <= MaxPad

\* the script runs: its declarations take their initial values (which LoadDocument
\* has set) and its listeners are registered
RuntimeStart ==
  /\ runtime = "loading"
  /\ runtime' = "ready"
  /\ UNCHANGED <<document, selectedElement, isDragging, start, currentDragElement,
                 isEditingMode, chanVars, frameVars, appVars, histVars>>

\* document 'mouseover'
MouseOver(t) ==
  /\ Ready /\ t \in Targets
  /\ IF ~isEditingMode \/ isDragging \/ t = Body \/ t = Html
       THEN UNCHANGED document
       ELSE IF t # selectedElement
         THEN document' = [document EXCEPT !.el[t].style.outline = HoverOutline,
                                           !.el[t].style.outlineOffset = HoverOffset]
         ELSE UNCHANGED document
  /\ UNCHANGED <<runtime, selectedElement, isDragging, start, currentDragElement,
                 isEditingMode, chanVars, frameVars, appVars, histVars>>

\* document 'mouseout' (the body and the root carry no modelled outline)
MouseOut(t) ==
  /\ Ready /\ t \in Targets
  /\ IF ~isEditingMode \/ isDragging
       THEN UNCHANGED document
       ELSE IF t # selectedElement /\ t \in Elems
         THEN document' = [document EXCEPT !.el[t].style.outline = ""]
         ELSE UNCHANGED document
  /\ UNCHANGED <<runtime, selectedElement, isDragging, start, currentDragElement,
                 isEditingMode, chanVars, frameVars, appVars, histVars>>

\* document 'mousedown'
MouseDown(t, button, pt) ==
  /\ Ready /\ t \in Targets
  /\ IF ~isEditingMode \/ button # 0 \/ t = Body \/ t = Html
       THEN UNCHANGED <<currentDragElement, start>>
       ELSE /\ currentDragElement' = t
            /\ start' = pt
  /\ UNCHANGED <<runtime, document, selectedElement, isDragging, isEditingMode,
                 chanVars, frameVars, appVars, histVars>>

\* document 'mousemove'
MouseMove(pt) ==
  /\ Ready
  /\ IF ~isEditingMode \/ currentDragElement = Null
       THEN UNCHANGED <<isDragging, document>>
       ELSE LET dx == pt[1] - start[1]
                dy == pt[2] - start[2]
            IN IF ~isDragging /\ (Abs(dx) > DragThreshold \/ Abs(dy) > DragThreshold)
                 THEN /\ isDragging' = TRUE
                      /\ document' =
                           [document EXCEPT !.el[currentDragElement].style.opacity = "0.4",
                                            !.el[currentDragElement].style.pointerEvents = "none"]
                 ELSE UNCHANGED <<isDragging, document>>
  /\ UNCHANGED <<runtime, selectedElement, start, currentDragElement, isEditingMode,
                 chanVars, frameVars, appVars, histVars>>

\* element.tagName
TagName(tag) ==
  CASE tag = "p" -> "P"
    [] tag = "div" -> "DIV"
    [] tag = "h2" -> "H2"
    [] tag = "button" -> "BUTTON"
    [] OTHER -> tag

\* window.getComputedStyle(el).backgroundColor / .color
ComputedBackground(e) ==
  IF e.style.backgroundColor # "" THEN e.style.backgroundColor ELSE "rgba(0, 0, 0, 0)"
ComputedColor(e) ==
  IF e.style.color # "" THEN e.style.color ELSE "rgb(0, 0, 0)"

ElementSelected(e) ==
  [type |-> "ELEMENT_SELECTED", tag |-> TagName(e.tag), textContent |-> e.text,
   colors |-> [bg |-> ComputedBackground(e), text |-> ComputedColor(e)],
   source |-> frame.key]

\* the test on dropTarget in the drag branch of 'mouseup'
ValidDropTarget(cde, target) ==
  target # Null /\ target # cde /\ target # Body /\ target # Html

\* (a drop that appends the origin to the body when the target is not valid)
DropAppends(k, cde, target, above) ==
  IF ValidDropTarget(cde, target)
    THEN InsertBefore(k, ParentNode(k, target), cde,
                      IF above THEN target ELSE NextSibling(k, target))
    ELSE InsertBefore(k, Body, cde, Null)

\* the tree after the drop of `cde` on `target` (insertBefore not throwing)
Drop(k, cde, target, above) ==
  IF ValidDropTarget(cde, target)
    THEN InsertBefore(k, ParentNode(k, target), cde,
                      IF above THEN target ELSE NextSibling(k, target))
    ELSE k

\* document 'mouseup'; `target` is document.elementFromPoint(e.clientX, e.clientY) and
\* `above` is e.clientY < midpoint of the target's rectangle
MouseUp(target, above) ==
  /\ Ready /\ target \in Targets \cup {Null}
  /\ IF ~isEditingMode
       THEN UNCHANGED <<document, selectedElement, isDragging, currentDragElement, toHost>>
     ELSE IF isDragging /\ currentDragElement # Null
       THEN LET cde == currentDragElement
                d1 == [document EXCEPT !.el[cde].style.opacity = "",
                                       !.el[cde].style.pointerEvents = ""]
                valid == ValidDropTarget(cde, target)
                parent == ParentNode(d1.kids, target)
                \* insertBefore throws HierarchyRequestError when the node to insert
                \* contains the parent: the handler ends there
                throws == valid /\ parent \in {cde} \cup Descendants(d1.kids, cde)
                d2 == [d1 EXCEPT !.kids = Drop(d1.kids, cde, target, above)]
            IN IF throws
                 THEN /\ document' = d1
                      /\ UNCHANGED <<selectedElement, isDragging, currentDragElement, toHost>>
                 ELSE /\ CanSync
                      /\ isDragging' = FALSE
                      /\ toHost' = Append(toHost, SyncCode(d2))
                      /\ document' = Collect(UpdateSelectionUI(d2, cde), {selectedElement})
                      /\ currentDragElement' = Null
                      /\ UNCHANGED selectedElement
     ELSE IF currentDragElement # Null
       THEN LET cde == currentDragElement
                d1 == IF selectedElement # Null
                        THEN [document EXCEPT !.el[selectedElement].ce = ""]
                        ELSE document
                d2 == UpdateSelectionUI(d1, cde)
                d3 == [d2 EXCEPT !.el[cde].ce = "true"]
            IN /\ CanPost
               /\ selectedElement' = cde
               /\ document' = Collect(d3, {cde})
               /\ toHost' = Append(toHost, ElementSelected(d3.el[cde]))
               /\ currentDragElement' = Null
               /\ UNCHANGED isDragging
     ELSE UNCHANGED <<document, selectedElement, isDragging, currentDragElement, toHost>>
  /\ UNCHANGED <<runtime, start, isEditingMode, toRuntime, frameVars, appVars, histVars>>

\* document 'input': the user types into an editable element
Input(t, txt) ==
  /\ Ready /\ t \in Attached(document.kids)
  /\ document.el[t].ce = "true"
  /\ txt \in Texts /\ txt # document.el[t].text
  /\ document' = [document EXCEPT !.el[t].text = txt]
  /\ IF isEditingMode /\ selectedElement # Null
       THEN /\ CanSync
            /\ toHost' = Append(toHost, SyncCode(document'))
       ELSE UNCHANGED toHost
  /\ UNCHANGED <<runtime, selectedElement, isDragging, start, currentDragElement,
                 isEditingMode, toRuntime, frameVars, appVars, histVars>>

\* the first element slot that holds no element
FreeSlots(d) == {n \in Elems : d.el[n] = NoEl}
NewSlot(d) == CHOOSE n \in FreeSlots(d) : \A m \in FreeSlots(d) : n <= m

\* window 'message', type ADD_ELEMENT
AddElement(payload) ==
  LET n == NewSlot(document)
      e == [NoEl EXCEPT !.tag = payload.tag,
                        !.text = IF payload.text # "" THEN payload.text ELSE "New Element",
                        !.cls = IF payload.className # "" THEN payload.className
                                ELSE "p-4 m-2 rounded-lg"]
      d1 == [document EXCEPT !.el[n] = e]
      d2 == IF selectedElement # Null /\ ParentNode(d1.kids, selectedElement) # Null
              THEN [d1 EXCEPT !.kids =
                     InsertBefore(d1.kids, ParentNode(d1.kids, selectedElement), n,
                                  NextSibling(d1.kids, selectedElement))]
              ELSE [d1 EXCEPT !.kids[Body] = Append(@, n)]
  IN /\ FreeSlots(document) # {}
     /\ CanSync
     /\ document' = Collect(d2, {selectedElement, currentDragElement})
     /\ toHost' = Append(toHost, SyncCode(d2))
     /\ UNCHANGED <<selectedElement, isEditingMode>>

\* window 'message', type SET_EDIT_MODE
SetEditMode(payload) ==
  LET d1 == IF ~payload /\ selectedElement # Null
              THEN [document EXCEPT !.el[selectedElement].style.outline = "",
                                    !.el[selectedElement].ce = ""]
              ELSE document
  IN /\ isEditingMode' = payload
     /\ selectedElement' = IF ~payload THEN Null ELSE selectedElement
     /\ document' = Collect([d1 EXCEPT !.cursor = IF payload THEN "crosshair" ELSE "default"],
                            {selectedElement', currentDragElement})
     /\ UNCHANGED toHost

\* (an UPDATE_STYLE that styles every element of the tree when there is a selection)
UpdateStyleEverywhere(payload) ==
  IF selectedElement = Null
    THEN UNCHANGED <<document, selectedElement, isEditingMode, toHost>>
    ELSE /\ CanSync
         /\ document' = [document EXCEPT !.el =
                           [n \in Elems |-> IF n \in Attached(document.kids)
                                              THEN [@[n] EXCEPT !.style[payload.key] = payload.value]
                                              ELSE @[n]]]
         /\ toHost' = Append(toHost, SyncCode(document'))
         /\ UNCHANGED <<selectedElement, isEditingMode>>

\* window 'message', type UPDATE_STYLE
UpdateStyle(payload) ==
  IF selectedElement = Null
    THEN UNCHANGED <<document, selectedElement, isEditingMode, toHost>>
    ELSE /\ CanSync
         /\ document' = [document EXCEPT !.el[selectedElement].style[payload.key] = payload.value]
         /\ toHost' = Append(toHost, SyncCode(document'))
         /\ UNCHANGED <<selectedElement, isEditingMode>>

\* (a DELETE_ELEMENT that removes the element and keeps it as the selection)
DeleteElementKeepsSelection ==
  IF selectedElement = Null
    THEN UNCHANGED <<document, selectedElement, isEditingMode, toHost>>
    ELSE LET d1 == [document EXCEPT !.kids = Unlink(@, selectedElement)]
         IN /\ CanSync
            /\ document' = Collect(d1, {selectedElement, currentDragElement})
            /\ toHost' = Append(toHost, SyncCode(d1))
            /\ UNCHANGED <<selectedElement, isEditingMode>>

\* window 'message', type DELETE_ELEMENT
DeleteElement ==
  IF selectedElement = Null
    THEN UNCHANGED <<document, selectedElement, isEditingMode, toHost>>
    ELSE LET d1 == [document EXCEPT !.kids = Unlink(@, selectedElement)]
         IN /\ CanSync
            /\ selectedElement' = Null
            /\ document' = Collect(d1, {currentDragElement})
            /\ toHost' = Append(toHost, SyncCode(d1))
            /\ UNCHANGED isEditingMode

\* window 'message': the listener's dispatch on event.data.type
OnMessage(msg) ==
  CASE msg.type = "ADD_ELEMENT" -> AddElement(msg.payload)
    [] msg.type = "SET_EDIT_MODE" -> SetEditMode(msg.payload)
    [] msg.type = "UPDATE_STYLE" -> UpdateStyle(msg.payload)
    [] msg.type = "DELETE_ELEMENT" -> DeleteElement

\* a message event that reaches the document now on display. The listener checks
\* neither origin nor source; the [isEditing, iframeKey] effect posts to the window
\* the iframe holds at that moment, which is still the document on display while
\* the navigation to the new srcDoc is under way.
Message(msg) ==
  /\ Ready
  /\ OnMessage(msg)
  /\ UNCHANGED <<runtime, isDragging, start, currentDragElement, toRuntime, frameVars,
                 appVars, histVars>>

\* The runtime's window receives the next message posted to it.  A message that
\* arrives before the script has registered its listener is lost.  One that was posted
\* to the iframe's window before the new document was there (`early`) went to the
\* window of the document being replaced: the browser may drop it or deliver it.
RuntimeReceive ==
  /\ toRuntime # <<>>
  /\ toRuntime' = Tail(toRuntime)
  /\ LET msg == Head(toRuntime)
         Handle == OnMessage(msg)
         Lost == UNCHANGED <<document, selectedElement, isEditingMode, toHost>>
     IN IF ~Ready THEN Lost
        ELSE IF msg.early THEN Lost \/ Handle
        ELSE Handle
  /\ UNCHANGED <<runtime, isDragging, start, currentDragElement, frameVars, appVars,
                 histVars>>

(***************************************************************************)
(* PreviewFrame: render, commit and effects.                               *)
(***************************************************************************)
NoFrame == [key |-> 0, srcDoc |-> GetFinalCode(NoCode, FALSE)]

\* renderGenerator shows PreviewFrame in the generator view, on the preview tab, once
\* there is code
ShouldMount(vw, tab, gc) == vw = "generator" /\ tab = "preview" /\ gc # NoCode

\* the iframe gets a document: a new iframe (changed key) or a changed srcDoc.  The
\* previous context is gone, with the messages posted to it; the script's closure
\* starts from its declarations.
LoadDocument(src) ==
  /\ runtime' = "loading"
  /\ document' = ParseDocument(src)
  /\ selectedElement' = Null
  /\ isDragging' = FALSE
  /\ start' = <<0, 0>>
  /\ currentDragElement' = Null
  /\ isEditingMode' = src.script.isEditingMode
  /\ toRuntime' = <<>>

NoDocument ==
  /\ runtime' = "none"
  /\ document' = [NoCode EXCEPT !.script = FALSE]
  /\ selectedElement' = Null
  /\ isDragging' = FALSE
  /\ start' = <<0, 0>>
  /\ currentDragElement' = Null
  /\ isEditingMode' = FALSE
  /\ toRuntime' = <<>>

\* React renders App with the state (vw, tab, gc, ed) and commits PreviewFrame
Commit(vw, tab, gc, ed) ==
  IF ~ShouldMount(vw, tab, gc)
    THEN \* PreviewFrame is not rendered: unmounted if it was there
         /\ mounted' = FALSE
         /\ code' = NoCode
         /\ internalCodeRef' = NoCode
         /\ iframeKey' = 0
         /\ frame' = NoFrame
         /\ codeEffect' = FALSE
         /\ modeEffect' = FALSE
         /\ NoDocument
  ELSE IF ~mounted
    THEN \* mount: useRef(code), useState(0), every effect is scheduled
         /\ mounted' = TRUE
         /\ code' = gc
         /\ internalCodeRef' = gc
         /\ iframeKey' = 0
         /\ frame' = [key |-> 0, srcDoc |-> GetFinalCode(gc, ed)]
         /\ codeEffect' = TRUE
         /\ modeEffect' = TRUE
         /\ LoadDocument(GetFinalCode(gc, ed))
  ELSE \* update: srcDoc is computed from internalCodeRef.current as it is now
       LET src == GetFinalCode(internalCodeRef, ed)
           new == [key |-> iframeKey, srcDoc |-> src]
       IN /\ mounted' = TRUE
          /\ code' = gc
          /\ frame' = new
          /\ codeEffect' = (gc # code)
          /\ modeEffect' = (ed # frame.srcDoc.script.isEditingMode \/ iframeKey # frame.key)
          /\ UNCHANGED <<internalCodeRef, iframeKey>>
          /\ IF new # frame
               THEN LoadDocument(src)
               ELSE UNCHANGED <<rtVars, toRuntime>>

EffectsPending == codeEffect \/ modeEffect

\* state was set outside a React event handler and is not rendered yet
Dirty ==
  \/ ShouldMount(view, activeTab, generatedCode) # mounted
  \/ mounted /\ (code # generatedCode \/ frame.key # iframeKey)

\* a scheduled render: React flushes the pending effects before it renders again
Render ==
  /\ ~EffectsPending
  /\ Dirty
  /\ Commit(view, activeTab, generatedCode, isEditing)
  /\ UNCHANGED <<toHost, appVars, histVars>>

SetEditModeMessage ==
  [type |-> "SET_EDIT_MODE", payload |-> frame.srcDoc.script.isEditingMode,
   early |-> runtime = "loading"]

\* (effects whose [code] effect records the markup and forgets setIframeKey)
RunEffectsNoReload ==
  /\ EffectsPending
  /\ mounted
  /\ IF codeEffect /\ code # internalCodeRef
       THEN /\ internalCodeRef' = code
            /\ UNCHANGED iframeKey
       ELSE UNCHANGED <<internalCodeRef, iframeKey>>
  /\ IF modeEffect
       THEN /\ Len(toRuntime) < MaxInFlight
            /\ toRuntime' = Append(toRuntime, SetEditModeMessage)
       ELSE UNCHANGED toRuntime
  /\ codeEffect' = FALSE
  /\ modeEffect' = FALSE
  /\ UNCHANGED <<rtVars, toHost, mounted, code, frame, appVars, histVars>>

\* the passive effects of the last commit, in the order PreviewFrame declares them:
\* the [code] effect (external updates), then the [isEditing, iframeKey] effect
RunEffects ==
  /\ EffectsPending
  /\ mounted
  /\ IF codeEffect /\ code # internalCodeRef
       THEN /\ iframeKey < MaxKey
            /\ internalCodeRef' = code
            /\ iframeKey' = iframeKey + 1
       ELSE UNCHANGED <<internalCodeRef, iframeKey>>
  /\ IF modeEffect
       THEN /\ Len(toRuntime) < MaxInFlight
            /\ toRuntime' = Append(toRuntime, SetEditModeMessage)
       ELSE UNCHANGED toRuntime
  /\ codeEffect' = FALSE
  /\ modeEffect' = FALSE
  /\ UNCHANGED <<rtVars, toHost, mounted, code, frame, appVars, histVars>>

NoSelection == [type |-> "NONE"]

\* handleMessage: the window 'message' listener of PreviewFrame
HostReceive ==
  /\ toHost # <<>>
  /\ toHost' = Tail(toHost)
  /\ LET msg == Head(toHost)
     IN IF ~mounted
          THEN UNCHANGED <<internalCodeRef, generatedCode, selectedElementData>>
        ELSE IF msg.type = "ELEMENT_SELECTED"
          THEN /\ selectedElementData' =
                    [tag |-> msg.tag, colors |-> msg.colors, textContent |-> msg.textContent]
               /\ UNCHANGED <<internalCodeRef, generatedCode>>
        ELSE IF msg.type = "CODE_UPDATED_FROM_EDITOR"
          THEN /\ internalCodeRef' = msg.code
               /\ generatedCode' = msg.code
               /\ UNCHANGED selectedElementData
        ELSE UNCHANGED <<internalCodeRef, generatedCode, selectedElementData>>
  /\ UNCHANGED <<rtVars, toRuntime, mounted, code, iframeKey, frame, codeEffect,
                 modeEffect, view, activeTab, isEditing, status, histVars>>

(***************************************************************************)
(* The History Store.                                                      *)
(***************************************************************************)
maxItems == 12

NoStored == [present |-> FALSE, list |-> <<>>]
Stored(list) == [present |-> TRUE, list |-> list]

\* localStorage.setItem('wizard-history', JSON.stringify(list)) throws
SetItemThrows(list) == Len(list) > quota

\* (a loop that keeps its list on a rejected write and allows twice the attempts)
RECURSIVE PersistLoopKeepsList(_, _, _, _)
PersistLoopKeepsList(currentHistory, success, attempts, writes) ==
  IF ~success /\ Len(currentHistory) > 0 /\ attempts < 2 * Len(currentHistory) + 2
    THEN IF SetItemThrows(currentHistory)
           THEN PersistLoopKeepsList(currentHistory, FALSE, attempts + 1, writes + 1)
           ELSE PersistLoopKeepsList(currentHistory, TRUE, attempts, writes + 1)
    ELSE [list |-> currentHistory, success |-> success, attempts |-> attempts,
          writes |-> writes]

\* the while loop of saveToHistory; `writes` counts the calls of setItem
RECURSIVE PersistLoop(_, _, _, _)
PersistLoop(currentHistory, success, attempts, writes) ==
  IF ~success /\ Len(currentHistory) > 0 /\ attempts < Len(currentHistory) + 1
    THEN IF SetItemThrows(currentHistory)
           THEN PersistLoop(SubSeq(currentHistory, 1, Len(currentHistory) - 1), FALSE,
                            attempts + 1, writes + 1)
           ELSE PersistLoop(currentHistory, TRUE, attempts, writes + 1)
    ELSE [list |-> currentHistory, success |-> success, attempts |-> attempts,
          writes |-> writes]

\* (a saveToHistory that forgets slice(0, maxItems))
SaveToHistoryUnbounded(newItem, hist) ==
  PersistLoop(<<newItem>> \o hist, FALSE, 0, 0)

\* saveToHistory(code), as far as its return: the list it hands to setHistory and what
\* it leaves in the store
SaveToHistory(newItem, hist) ==
  LET all == <<newItem>> \o hist
      currentHistory == IF Len(all) > maxItems THEN SubSeq(all, 1, maxItems) ELSE all
  IN PersistLoop(currentHistory, FALSE, 0, 0)

(***************************************************************************)
(* App: the handlers of the user interface.  A React event handler renders *)
(* before it returns; the user acts on what is rendered.                   *)
(***************************************************************************)
Settled == ~EffectsPending /\ ~Dirty

\* the left panel shows the editor panel instead of the generator's controls
EditorPanel == isEditing /\ generatedCode # NoCode
\* the bar with the PREVIEW / LIVE EDITOR / SOURCE buttons can be clicked
TabBar == view = "generator" /\ generatedCode # NoCode /\ status # "LOADING"

\* header: setView
SetView(v) ==
  /\ Settled
  /\ v # view
  /\ view' = v
  /\ Commit(v, activeTab, generatedCode, isEditing)
  /\ UNCHANGED <<toHost, activeTab, generatedCode, isEditing, selectedElementData, status,
                 histVars>>

\* PREVIEW / LIVE EDITOR / SOURCE
SelectTab(tab, editing) ==
  /\ Settled
  /\ TabBar
  /\ activeTab' = tab
  /\ isEditing' = editing
  /\ Commit(view, tab, generatedCode, editing)
  /\ UNCHANGED <<toHost, view, generatedCode, selectedElementData, status, histVars>>

\* BACK / Finalize Magic: setIsEditing(false)
LeaveEditor ==
  /\ Settled
  /\ view = "generator" /\ EditorPanel
  /\ isEditing' = FALSE
  /\ Commit(view, activeTab, generatedCode, FALSE)
  /\ UNCHANGED <<toHost, view, activeTab, generatedCode, selectedElementData, status,
                 histVars>>

AddPayloads ==
  {[tag |-> "h2", text |-> "New Heading", className |-> "text-4xl font-black mb-4"],
   [tag |-> "div", text |-> "",
    className |-> "w-full h-64 bg-slate-200 rounded-2xl flex items-center justify-center"]}

StylePayloads ==
  {[key |-> "backgroundColor", value |-> "#ff0000"], [key |-> "color", value |-> "#ff0000"]}

\* elements of the document plus the ADD_ELEMENT messages on their way to it
ElementBudgetUsed ==
  Cardinality(Elems \ FreeSlots(document))
    + Cardinality({i \in DOMAIN toRuntime : toRuntime[i].type = "ADD_ELEMENT"})

\* iframe?.contentWindow?.postMessage(msg, '*')
PostToIframe(msg) ==
  IF mounted
    THEN /\ Len(toRuntime) < MaxInFlight
         /\ toRuntime' = Append(toRuntime, msg)
    ELSE UNCHANGED toRuntime

\* addElementToSite(tag, text, className)
AddElementToSite(payload) ==
  /\ Settled
  /\ view = "generator" /\ EditorPanel
  /\ ElementBudgetUsed < MaxElems
  /\ PostToIframe([type |-> "ADD_ELEMENT", payload |-> payload,
                   early |-> runtime = "loading"])
  /\ UNCHANGED <<rtVars, toHost, frameVars, appVars, histVars>>

\* the colour inputs of the editor panel (and pickColor for 'edit-bg', 'edit-text')
UpdateStyleOfSelection(payload) ==
  /\ Settled
  /\ view = "generator" /\ EditorPanel /\ selectedElementData # NoSelection
  /\ PostToIframe([type |-> "UPDATE_STYLE", payload |-> payload,
                   early |-> runtime = "loading"])
  /\ UNCHANGED <<rtVars, toHost, frameVars, appVars, histVars>>

\* deleteElement
DeleteSelection ==
  /\ Settled
  /\ view = "generator" /\ EditorPanel /\ selectedElementData # NoSelection
  /\ PostToIframe([type |-> "DELETE_ELEMENT", payload |-> "", early |-> runtime = "loading"])
  /\ selectedElementData' = NoSelection
  /\ UNCHANGED <<rtVars, toHost, frameVars, view, activeTab, generatedCode, isEditing,
                 status, histVars>>

\* handleGenerate, up to its await: the closure keeps the history of this render
HandleGenerate ==
  /\ Settled
  /\ view = "generator" /\ ~EditorPanel /\ status # "LOADING"
  /\ nextId <= MaxGen
  /\ status' = "LOADING"
  /\ isEditing' = FALSE
  /\ closureHistory' = history
  /\ Commit(view, activeTab, generatedCode, FALSE)
  /\ UNCHANGED <<toHost, view, activeTab, generatedCode, selectedElementData, history,
                 nextId, stored, quota>>

\* handleGenerate after the await, generateWebsiteFromImage having returned `g`:
\* setGeneratedCode, saveToHistory, setStatus, setActiveTab
GenerateSucceeds(g) ==
  /\ status = "LOADING"
  /\ LET saved == SaveToHistory([id |-> nextId, code |-> g], closureHistory)
     IN /\ history' = saved.list
        /\ stored' = IF saved.success THEN Stored(saved.list) ELSE stored
  /\ generatedCode' = g
  /\ status' = "SUCCESS"
  /\ activeTab' = "preview"
  /\ nextId' = nextId + 1
  /\ UNCHANGED <<rtVars, chanVars, frameVars, view, isEditing, selectedElementData,
                 closureHistory, quota>>

\* handleGenerate's catch
GenerateFails ==
  /\ status = "LOADING"
  /\ status' = "ERROR"
  /\ UNCHANGED <<rtVars, chanVars, frameVars, view, activeTab, generatedCode, isEditing,
                 selectedElementData, histVars>>

\* loadFromHistory(item), a click on a record of the archive
LoadFromHistory(i) ==
  /\ Settled
  /\ view = "history" /\ i \in DOMAIN history
  /\ generatedCode' = history[i].code
  /\ view' = "generator"
  /\ activeTab' = "preview"
  /\ isEditing' = FALSE
  /\ Commit("generator", "preview", history[i].code, FALSE)
  /\ UNCHANGED <<toHost, selectedElementData, status, histVars>>

\* clearHistory, confirmed
ClearHistory ==
  /\ Settled
  /\ view = "history" /\ history # <<>>
  /\ history' = <<>>
  /\ stored' = NoStored
  /\ UNCHANGED <<rtVars, chanVars, frameVars, appVars, closureHistory, nextId, quota>>

\* the remove button of a record
RemoveFromHistory(i) ==
  /\ Settled
  /\ view = "history" /\ i \in DOMAIN history
  /\ LET updated == SubSeq(history, 1, i - 1) \o SubSeq(history, i + 1, Len(history))
     IN /\ history' = updated
        /\ stored' = IF SetItemThrows(updated) THEN stored ELSE Stored(updated)
  /\ UNCHANGED <<rtVars, chanVars, frameVars, appVars, closureHistory, nextId, quota>>

\* toggleTheme: the [isDark] effect reads the history from localStorage again
ToggleTheme ==
  /\ Settled
  /\ history' = IF stored.present THEN stored.list ELSE history
  /\ UNCHANGED <<rtVars, chanVars, frameVars, appVars, closureHistory, nextId, stored, quota>>

(***************************************************************************)
(* Specifications.                                                         *)
(***************************************************************************)
\* the application as it starts, with `list` in the store and room for `q` records
InitWith(list, q, id) ==
  /\ runtime = "none"
  /\ document = NoCode
  /\ selectedElement = Null
  /\ isDragging = FALSE
  /\ start = <<0, 0>>
  /\ currentDragElement = Null
  /\ isEditingMode = FALSE
  /\ toHost = <<>>
  /\ toRuntime = <<>>
  /\ mounted = FALSE
  /\ code = NoCode
  /\ internalCodeRef = NoCode
  /\ iframeKey = 0
  /\ frame = NoFrame
  /\ codeEffect = FALSE
  /\ modeEffect = FALSE
  /\ view = "landing"
  /\ activeTab = "preview"
  /\ generatedCode = NoCode
  /\ isEditing = FALSE
  /\ selectedElementData = NoSelection
  /\ status = "IDLE"
  /\ history = list
  /\ closureHistory = list
  /\ nextId = id
  /\ stored = IF list = <<>> THEN NoStored ELSE Stored(list)
  /\ quota = q

\* pointer events; a press is at the origin of the coordinates the moves are drawn from
PointerEvents(points) ==
  \/ \E t \in Nodes \cup {Html} : MouseOver(t)
  \/ \E t \in Nodes \cup {Html} : MouseOut(t)
  \/ \E t \in Nodes \cup {Html}, button \in {0, 2} : MouseDown(t, button, <<0, 0>>)
  \/ \E pt \in points : MouseMove(pt)
  \/ \E t \in Nodes \cup {Html, Null}, above \in BOOLEAN : MouseUp(t, above)

RuntimeEvents ==
  \/ RuntimeStart
  \/ PointerEvents(Points)
  \/ \E t \in Elems, txt \in Texts : Input(t, txt)
  \/ RuntimeReceive

FrameEvents ==
  \/ Render
  \/ RunEffects
  \/ HostReceive

EditorEvents ==
  \/ \E v \in {"landing", "generator", "history"} : SetView(v)
  \/ \E tab \in {"preview", "code"}, editing \in BOOLEAN :
       (tab = "code" => ~editing) /\ SelectTab(tab, editing)
  \/ LeaveEditor
  \/ \E payload \in AddPayloads : AddElementToSite(payload)
  \/ \E payload \in StylePayloads : UpdateStyleOfSelection(payload)
  \/ DeleteSelection

GenerationEvents ==
  \/ HandleGenerate
  \/ \E g \in Generated : GenerateSucceeds(g)
  \/ GenerateFails

HistoryEvents ==
  \/ \E i \in 1..maxItems : LoadFromHistory(i)
  \/ ClearHistory
  \/ \E i \in 1..maxItems : RemoveFromHistory(i)
  \/ ToggleTheme

\* ---- the whole application
Init == InitWith(<<>>, maxItems + 1, 1)
Next == RuntimeEvents \/ FrameEvents \/ EditorEvents \/ GenerationEvents \/ HistoryEvents
Spec == Init /\ [][Next]_vars

\* ---- synchronisation of the two representations: one generated page, regenerated
\* once, edited by selecting its element and typing into it
InitSync == InitWith(<<>>, maxItems + 1, MaxGen - 1)
NextSync ==
  \/ RuntimeStart
  \/ MouseDown(1, 0, <<0, 0>>)
  \/ \E above \in BOOLEAN : MouseUp(1, above)
  \/ \E txt \in Texts : Input(1, txt)
  \/ RuntimeReceive
  \/ FrameEvents
  \/ SetView("generator")
  \/ \E editing \in BOOLEAN : SelectTab("preview", editing)
  \/ HandleGenerate
  \/ GenerateSucceeds(GenSingle)
SpecSync == InitSync /\ [][NextSync]_vars

\* ---- the runtime's instrumentation and its snapshots: one generated page whose
\* markup has an inline outline and a contenteditable attribute of its own; the first
\* element is hovered, the second is pressed, dragged, dropped and typed into
InitRuntime == InitWith(<<>>, maxItems + 1, MaxGen)
NextRuntime ==
  \/ RuntimeStart
  \/ MouseOver(1)
  \/ MouseOut(1)
  \/ MouseDown(2, 0, <<0, 0>>)
  \/ \E pt \in {<<DragThreshold, 0>>, <<DragThreshold + 1, 0>>} : MouseMove(pt)
  \/ \E t \in {1, 2}, above \in BOOLEAN : MouseUp(t, above)
  \/ Input(2, "Hi")
  \/ RuntimeReceive
  \/ FrameEvents
  \/ SetView("generator")
  \/ \E editing \in BOOLEAN : SelectTab("preview", editing)
  \/ HandleGenerate
  \/ GenerateSucceeds(GenStyled)
SpecRuntime == InitRuntime /\ [][NextRuntime]_vars

\* ---- the history under generations alone: every write to the store succeeds and
\* no record is removed
InitHistory == InitWith(<<>>, maxItems + 1, 1)
NextHistory ==
  \/ Render
  \/ RunEffects
  \/ \E v \in {"landing", "generator", "history"} : SetView(v)
  \/ HandleGenerate
  \/ GenerateSucceeds(GenSingle)
  \/ GenerateFails
  \/ \E i \in 1..maxItems : LoadFromHistory(i)
  \/ ToggleTheme
SpecHistory == InitHistory /\ [][NextHistory]_vars

\* ---- selection and typing: the same page; either element is clicked and typed into
InitSelect == InitWith(<<>>, maxItems + 1, MaxGen)
NextSelect ==
  \/ RuntimeStart
  \/ \E t \in {1, 2} : MouseDown(t, 0, <<0, 0>>)
  \/ \E t \in {1, 2} : MouseUp(t, TRUE)
  \/ \E t \in {1, 2} : Input(t, IF t = 1 THEN "Yo" ELSE "Hi")
  \/ RuntimeReceive
  \/ FrameEvents
  \/ SetView("generator")
  \/ \E editing \in BOOLEAN : SelectTab("preview", editing)
  \/ HandleGenerate
  \/ GenerateSucceeds(GenStyled)
SpecSelect == InitSelect /\ [][NextSelect]_vars

\* ---- the history with a store short of room: the application starts with n records
\* (identities n .. 1, newest first) in a store that now rejects more than q records
OldRecords(n) == [i \in 1..n |-> [id |-> n + 1 - i, code |-> GenSingle]]
InitEvict ==
  \E q \in 0..MaxQuota, n \in 0..maxItems :
    /\ n \in {0, 1, q + 5}
    /\ InitWith(OldRecords(n), q, n + 1)
NextEvict ==
  \/ Render
  \/ RunEffects
  \/ \E v \in {"landing", "generator", "history"} : SetView(v)
  \/ HandleGenerate
  \/ GenerateSucceeds(GenSingle)
  \/ GenerateFails
  \/ ClearHistory
  \/ ToggleTheme
SpecEvict == InitEvict /\ [][NextEvict]_vars

\* ---- the persistence loop for every length of the history and every capacity of
\* the store, from one that rejects every write to one that accepts every list
InitLoop ==
  \E q \in 0..maxItems, n \in 0..maxItems : InitWith(OldRecords(n), q, n + 1)
NextLoop ==
  \/ Render
  \/ RunEffects
  \/ SetView("generator")
  \/ HandleGenerate
  \/ GenerateSucceeds(GenSingle)
SpecLoop == InitLoop /\ [][NextLoop]_vars

\* ---- dragging: a page with an element inside another; either one is pressed, moved
\* and released over any element, the body, the root or nothing
InitDrag == InitWith(<<>>, maxItems + 1, MaxGen)
NextDrag ==
  \/ RuntimeStart
  \/ \E t \in {1, 2} : MouseDown(t, 0, <<0, 0>>)
  \/ \E pt \in {<<DragThreshold, 0>>, <<DragThreshold + 1, 0>>} : MouseMove(pt)
  \/ \E t \in Nodes \cup {Html, Null}, above \in BOOLEAN : MouseUp(t, above)
  \/ RuntimeReceive
  \/ FrameEvents
  \/ SetView("generator")
  \/ \E editing \in BOOLEAN : SelectTab("preview", editing)
  \/ HandleGenerate
  \/ GenerateSucceeds(GenNested)
SpecDrag == InitDrag /\ [][NextDrag]_vars

\* ---- dropping on no target: the inner element of that page is dragged and released
\* over itself, the body, the root or nothing
InitDrop == InitWith(<<>>, maxItems + 1, MaxGen)
NextDrop ==
  \/ RuntimeStart
  \/ MouseDown(2, 0, <<0, 0>>)
  \/ \E pt \in {<<DragThreshold, 0>>, <<DragThreshold + 1, 0>>} : MouseMove(pt)
  \/ \E t \in {2, Body, Html, Null}, above \in BOOLEAN : MouseUp(t, above)
  \/ RuntimeReceive
  \/ FrameEvents
  \/ SetView("generator")
  \/ SelectTab("preview", TRUE)
  \/ HandleGenerate
  \/ GenerateSucceeds(GenNested)
SpecDrop == InitDrop /\ [][NextDrop]_vars

\* ---- the runtime of an editable document under selection, hovering and the
\* edit-mode command
InitModeOff == InitWith(<<>>, maxItems + 1, MaxGen)
NextModeOff ==
  \/ RuntimeStart
  \/ MouseOver(1)
  \/ \E t \in {1, 2} : MouseDown(t, 0, <<0, 0>>)
  \/ \E t \in {1, 2} : MouseUp(t, TRUE)
  \/ isEditing /\ Message([type |-> "SET_EDIT_MODE", payload |-> FALSE, early |-> FALSE])
  \/ RuntimeReceive
  \/ FrameEvents
  \/ SetView("generator")
  \/ \E editing \in BOOLEAN : SelectTab("preview", editing)
  \/ HandleGenerate
  \/ GenerateSucceeds(GenStyled)
SpecModeOff == InitModeOff /\ [][NextModeOff]_vars

\* ---- a drag of the only element of a page, with the edit-mode command arriving
\* at any moment of the gesture
InitModeDrag == InitWith(<<>>, maxItems + 1, MaxGen)
NextModeDrag ==
  \/ RuntimeStart
  \/ MouseDown(1, 0, <<0, 0>>)
  \/ MouseMove(<<DragThreshold + 1, 0>>)
  \/ \E t \in {1, Body} : MouseUp(t, TRUE)
  \/ isEditing /\ Message([type |-> "SET_EDIT_MODE", payload |-> FALSE, early |-> FALSE])
  \/ RuntimeReceive
  \/ FrameEvents
  \/ SetView("generator")
  \/ \E editing \in BOOLEAN : SelectTab("preview", editing)
  \/ HandleGenerate
  \/ GenerateSucceeds(GenSingle)
SpecModeDrag == InitModeDrag /\ [][NextModeDrag]_vars

\* ---- the edit-mode toggle and the rebuilds of the runtime: tabs, views, leaving
\* the editor and a second generation, with no edit in the document
InitMode == InitWith(<<>>, maxItems + 1, MaxGen - 1)
NextMode ==
  \/ RuntimeStart
  \/ RuntimeReceive
  \/ Render
  \/ RunEffects
  \/ \E v \in {"landing", "generator"} : SetView(v)
  \/ \E tab \in {"preview", "code"}, editing \in BOOLEAN :
       (tab = "code" => ~editing) /\ SelectTab(tab, editing)
  \/ LeaveEditor
  \/ HandleGenerate
  \/ \E g \in {GenSingle, GenNested} : GenerateSucceeds(g)
SpecMode == InitMode /\ [][NextMode]_vars

\* ---- the runtime under pointer events and commands, in and out of edit mode
Commands ==
  {[type |-> "ADD_ELEMENT", payload |-> p, early |-> FALSE] : p \in AddPayloads}
    \cup {[type |-> "UPDATE_STYLE", payload |-> p, early |-> FALSE] : p \in StylePayloads}
    \cup {[type |-> "DELETE_ELEMENT", payload |-> "", early |-> FALSE]}
InitOff == InitWith(<<>>, maxItems + 1, MaxGen)
NextOff ==
  \/ RuntimeStart
  \/ MouseOver(1)
  \/ MouseDown(1, 0, <<0, 0>>)
  \/ MouseUp(1, TRUE)
  \/ \E msg \in Commands : ~isEditingMode /\ Message(msg)
  \/ RuntimeReceive
  \/ FrameEvents
  \/ SetView("generator")
  \/ \E editing \in BOOLEAN : SelectTab("preview", editing)
  \/ HandleGenerate
  \/ GenerateSucceeds(GenSingle)
SpecOff == InitOff /\ [][NextOff]_vars

\* ---- the editor panel's delete button on a selection
InitDelete == InitWith(<<>>, maxItems + 1, MaxGen)
NextDelete ==
  \/ RuntimeStart
  \/ \E t \in {1, 2} : MouseDown(t, 0, <<0, 0>>)
  \/ \E t \in {1, 2} : MouseUp(t, TRUE)
  \/ DeleteSelection
  \/ RuntimeReceive
  \/ FrameEvents
  \/ SetView("generator")
  \/ SelectTab("preview", TRUE)
  \/ HandleGenerate
  \/ GenerateSucceeds(GenNested)
SpecDelete == InitDelete /\ [][NextDelete]_vars

\* ---- the editor panel's colour input and delete button, with and without a
\* selection in the runtime
InitStyle == InitWith(<<>>, maxItems + 1, MaxGen)
NextStyle ==
  \/ RuntimeStart
  \/ MouseDown(2, 0, <<0, 0>>)
  \/ MouseUp(2, TRUE)
  \/ UpdateStyleOfSelection([key |-> "color", value |-> "#ff0000"])
  \/ DeleteSelection
  \/ RuntimeReceive
  \/ FrameEvents
  \/ SetView("generator")
  \/ SelectTab("preview", TRUE)
  \/ HandleGenerate
  \/ GenerateSucceeds(GenNested)
SpecStyle == InitStyle /\ [][NextStyle]_vars

\* ---- the editor panel's add buttons, with and without a selection
InitAdd == InitWith(<<>>, maxItems + 1, MaxGen)
NextAdd ==
  \/ RuntimeStart
  \/ MouseDown(1, 0, <<0, 0>>)
  \/ MouseUp(1, TRUE)
  \/ \E payload \in AddPayloads : AddElementToSite(payload)
  \/ RuntimeReceive
  \/ FrameEvents
  \/ SetView("generator")
  \/ SelectTab("preview", TRUE)
  \/ HandleGenerate
  \/ GenerateSucceeds(GenSingle)
SpecAdd == InitAdd /\ [][NextAdd]_vars

(***************************************************************************)
(* Properties.                                                             *)
(***************************************************************************)
\* the snapshots on their way to the controller
Snapshots ==
  {toHost[i].code : i \in {j \in DOMAIN toHost : toHost[j].type = "CODE_UPDATED_FROM_EDITOR"}}

\* the controller takes the next message and it is a snapshot
AcceptsSnapshot ==
  /\ mounted
  /\ toHost # <<>>
  /\ Head(toHost).type = "CODE_UPDATED_FROM_EDITOR"
  /\ toHost' = Tail(toHost)

\* the [code] effect runs
CodeEffectRuns == codeEffect /\ ~codeEffect'

\* C1 (echo suppression): the external-update check forces a hard reload (iframeKey
\* is incremented) only for a markup that came from outside, a generated page; never
\* for a markup that the controller was handed by an edit-echo, whatever the order of
\* snapshot deliveries, renders and effects.
EchoNeverForcesReload ==
  [][iframeKey' > iframeKey => code \in Generated]_vars

\* C2 (stale snapshot): once a hard reload was forced, a snapshot that a previous
\* runtime context emitted (its source is not the iframe of the current key) and that
\* is delivered now is not accepted: the exposed markup and the last-known markup
\* stay as they are.
StaleSnapshotNotAccepted ==
  [][(AcceptsSnapshot /\ Head(toHost).source # iframeKey)
       => UNCHANGED <<generatedCode, internalCodeRef>>]_vars

QuiescentConsistency ==
  (mounted /\ runtime = "ready" /\ toHost = <<>> /\ toRuntime = <<>> /\ Settled)
    => /\ generatedCode = GetCleanHTML(document)
       /\ internalCodeRef = GetCleanHTML(document)

\* C6: no snapshot has an element with an outline or an outline-offset that the
\* runtime introduced (hover or selection).
NoRuntimeOutline ==
  \A c \in Snapshots : \A n \in Elems :
    /\ c.el[n].style.outline \notin {HoverOutline, SelectOutline}
    /\ c.el[n].style.outlineOffset \notin {HoverOffset, SelectOffset}

NoEditorArtifacts ==
  \A c \in Snapshots :
    /\ c.cursor = ""
    /\ \A n \in Elems : c.el[n].style.opacity = "" /\ c.el[n].style.pointerEvents = ""

\* C9: getCleanHTML keeps, for every element of the live tree, what the runtime did
\* not introduce: tag, class, text, the inline styles other than a hover or selection
\* outline, and a contenteditable attribute of an element that is not the selection.
OriginalsPreserved ==
  runtime # "none" =>
    LET order == PreOrder(document.kids, document.kids[Body])
        clean == GetCleanHTML(document)
    IN \A i \in DOMAIN order :
         LET e == document.el[order[i]]
             c == clean.el[i]
         IN /\ c.tag = e.tag /\ c.cls = e.cls /\ c.text = e.text
            /\ \A p \in StyleProps \ {"outline", "outlineOffset"} : c.style[p] = e.style[p]
            /\ (e.style.outline \notin {"", HoverOutline, SelectOutline}
                  => c.style.outline = e.style.outline)
            /\ (order[i] # selectedElement => c.ce = e.ce)

\* C10 (history bound): under generations alone, every write succeeding, the history
\* holds the records of the most recent generations, newest first, and at most
\* maxItems of them: exactly maxItems once more than maxItems were generated.
HistoryBound ==
  /\ Len(history) = (IF nextId - 1 > maxItems THEN maxItems ELSE nextId - 1)
  /\ \A i \in DOMAIN history : history[i].id = nextId - i
  /\ stored = (IF history = <<>> THEN NoStored ELSE Stored(history))

\* more than maxItems generations have succeeded
ManyGenerations == nextId - 1 > maxItems /\ Len(history) = maxItems

\* saveToHistory returns: the record of identity nextId was appended
Appends == nextId' = nextId + 1

\* C11 (eviction termination): appending a record to a list of K + 5 records, the
\* store rejecting more than K records (K >= 1), ends with the list persisted, of at
\* most K records, the new record first.
EvictionTerminates ==
  [][(Appends /\ quota >= 1 /\ Len(closureHistory) = quota + 5)
       => /\ stored' = Stored(history')
          /\ Len(history') <= quota
          /\ Len(history') >= 1
          /\ Head(history').id = nextId]_vars

\* C12 (newest record kept): after saveToHistory returns, the new record is the first
\* element of the in-memory history, whatever the store does.
NewestRecordFirst ==
  [][Appends => (history' # <<>> /\ Head(history').id = nextId)]_vars

\* a drag is under way and the pointer is released over `t`
DragReleasedOver(t, above) ==
  /\ isEditingMode /\ isDragging /\ currentDragElement # Null
  /\ MouseUp(t, above)

\* C13 (drag midpoint rule): a drag released over a valid target (an element other
\* than the origin) above its midpoint makes the origin the target's previous
\* sibling, below it the target's next sibling; the other elements keep their order.
DragMidpointRule ==
  [][\A t \in Elems, above \in BOOLEAN :
       (DragReleasedOver(t, above) /\ t # currentDragElement)
         => LET cde == currentDragElement
                k == document'.kids
            IN /\ ParentNode(k, cde) = ParentNode(document.kids, t)
               /\ IF above THEN NextSibling(k, cde) = t ELSE NextSibling(k, t) = cde
               /\ \A p \in Nodes : Without(k[p], cde) = Without(document.kids[p], cde)]_vars

\* C20 (invalid drop): a drag released over no element, over the origin itself, over
\* the body or over the root leaves the tree as it was: the same children of every
\* node, in the same order.
InvalidDropKeepsTree ==
  [][\A t \in Nodes \cup {Html, Null}, above \in BOOLEAN :
       (DragReleasedOver(t, above) /\ t \in {Null, currentDragElement, Body, Html})
         => document'.kids = document.kids]_vars

\* a drag has just ended on an invalid target: the session is over, the snapshot of the
\* unchanged tree is on its way
InvalidDropDone ==
  /\ Ready /\ ~isDragging /\ currentDragElement = Null
  /\ Snapshots # {}
  /\ document.kids = GenNested.kids
  /\ document.el[2].style.outline = SelectOutline
  /\ selectedElement = Null

\* C14 (selection clears on mode-off): when the runtime handles SET_EDIT_MODE false
\* with an active selection, it ends with no selection, no element of the live tree
\* with a hover or selection outline or outline offset, and the element that was
\* selected not editable.
ModeOffClearsSelection ==
  [][(Ready /\ selectedElement # Null /\ SetEditMode(FALSE))
       => /\ selectedElement' = Null
          /\ document'.el[selectedElement].ce = ""
          /\ \A n \in Attached(document'.kids) :
               /\ document'.el[n].style.outline \notin {HoverOutline, SelectOutline}
               /\ document'.el[n].style.outlineOffset \notin {HoverOffset, SelectOffset}]_vars

\* C15 (host selection description): with every render and effect done and no
\* message on its way, the host holds a selection description only if the runtime
\* has a selection.
HostSelectionFollowsRuntime ==
  (Settled /\ toHost = <<>> /\ toRuntime = <<>> /\ selectedElementData # NoSelection)
    => selectedElement # Null

\* C16 (edit mode off): while the runtime's edit-mode flag is false, a step of the
\* loaded document (a pointer event or a command) leaves the tree, the elements and
\* the selection as they are and posts nothing to the host.
NoEditingWhenOff ==
  [][(Ready /\ runtime' = "ready" /\ ~isEditingMode /\ ~isEditingMode')
       => /\ document'.kids = document.kids
          /\ document'.el = document.el
          /\ selectedElement' = selectedElement
          /\ Len(toHost') <= Len(toHost)]_vars

\* the runtime of the loaded document takes the next command, of type `type`, from
\* its queue and handles it
Handles(type) ==
  /\ Ready /\ runtime' = "ready"
  /\ toRuntime # <<>>
  /\ Head(toRuntime).type = type
  /\ ~Head(toRuntime).early
  /\ toRuntime' = Tail(toRuntime)

\* the snapshot that the step posts: the only new message to the host
PostsSnapshotOf(k, el) ==
  /\ Len(toHost') = Len(toHost) + 1
  /\ SubSeq(toHost', 1, Len(toHost)) = toHost
  /\ LET m == toHost'[Len(toHost')]
         order == PreOrder(k, k[Body])
     IN /\ m.type = "CODE_UPDATED_FROM_EDITOR"
        /\ \A i \in Elems :
             m.code.el[i] = IF i <= Len(order) THEN CleanElement(el[order[i]]) ELSE NoEl
        /\ Attached(m.code.kids) = 1..Len(order)

\* C17 (delete): DELETE_ELEMENT with an active selection removes the selected element
\* and its subtree from the live tree and nothing else, leaves the runtime with no
\* selection, and posts exactly one snapshot, which holds the remaining elements only.
DeleteRemovesSelection ==
  [][(Handles("DELETE_ELEMENT") /\ selectedElement # Null)
       => LET s == selectedElement
              k == document.kids
              gone == {s} \cup Descendants(k, s)
          IN /\ selectedElement' = Null
             /\ Attached(document'.kids) = Attached(k) \ gone
             /\ \A p \in (Attached(k) \cup {Body}) \ gone :
                  document'.kids[p] = Without(k[p], s)
             /\ \A n \in Attached(k) \ gone : document'.el[n] = document.el[n]
             /\ PostsSnapshotOf(document'.kids, document.el)]_vars

\* a paragraph inside a division was selected and deleted: the division is left
DeletedParagraph ==
  /\ Ready /\ selectedElement = Null
  /\ document.kids[Body] = <<1>> /\ document.kids[1] = <<>>
  /\ \E i \in DOMAIN toHost :
       /\ toHost[i].type = "CODE_UPDATED_FROM_EDITOR"
       /\ Attached(toHost[i].code.kids) = {1}
       /\ toHost[i].code.el[1].tag = "div"

\* C18 (add): ADD_ELEMENT adds one element with the tag, the text and the classes of
\* the payload, as the next sibling of the selection if there is one and as the last
\* child of the body otherwise, and posts exactly one snapshot.
AddBuildsElement ==
  [][Handles("ADD_ELEMENT")
       => LET p == Head(toRuntime).payload
              k == document.kids
              k2 == document'.kids
              new == Attached(k2) \ Attached(k)
          IN /\ Cardinality(new) = 1
             /\ \A n \in new :
                  /\ document'.el[n].tag = p.tag
                  /\ document'.el[n].text = p.text
                  /\ document'.el[n].cls = p.className
                  /\ IF selectedElement # Null
                       THEN /\ ParentNode(k2, n) = ParentNode(k, selectedElement)
                            /\ NextSibling(k2, selectedElement) = n
                       ELSE k2[Body] = Append(k[Body], n)
             /\ PostsSnapshotOf(k2, document'.el)]_vars

\* C19 (commands on a selection): UPDATE_STYLE and DELETE_ELEMENT handled while the
\* runtime has no selection change nothing in the runtime and post nothing; with a
\* selection, UPDATE_STYLE sets the named style property of the selected element and
\* changes nothing else in the tree.
SelectionCommands ==
  [][/\ ((Handles("UPDATE_STYLE") \/ Handles("DELETE_ELEMENT")) /\ selectedElement = Null)
          => UNCHANGED <<rtVars, toHost>>
     /\ (Handles("UPDATE_STYLE") /\ selectedElement # Null)
          => LET p == Head(toRuntime).payload
                 s == selectedElement
             IN /\ document'.kids = document.kids
                /\ \A n \in Elems \ {s} : document'.el[n] = document.el[n]
                /\ document'.el[s].style[p.key] = p.value
                /\ \A q \in StyleProps \ {p.key} :
                     document'.el[s].style[q] = document.el[s].style[q]
                /\ \A f \in {"tag", "text", "cls", "ce"} :
                     document'.el[s][f] = document.el[s][f]]_vars

\* the selected paragraph has taken the colour, the division around it has not
StyledSelection ==
  /\ Ready /\ selectedElement = 2
  /\ document.el[2].style.color = "#ff0000"
  /\ document.el[1].style.color = ""
  /\ \E i \in DOMAIN toHost : toHost[i].type = "CODE_UPDATED_FROM_EDITOR"

\* the controller renders the markup that an accepted snapshot handed it: the code
\* prop changes to the last-known markup, under the same iframe key and edit mode
RendersEcho ==
  /\ mounted /\ mounted'
  /\ code' # code
  /\ code' = internalCodeRef
  /\ code' \notin Generated
  /\ frame'.key = frame.key
  /\ UNCHANGED <<iframeKey, isEditing, internalCodeRef>>

\* C21 (echo and the iframe document): the render that follows an accepted snapshot
\* leaves the runtime context as it is: the live tree, the selected element, the
\* edit-mode flag and the running script are unchanged.
EchoKeepsRuntime ==
  [][RendersEcho => UNCHANGED <<runtime, document, selectedElement, isEditingMode>>]_vars

\* C22 (persistence loop): saveToHistory returns with its list written to the store
\* or with an empty list; each record it drops is the oldest one, so the list it
\* leaves is a front part of the new record followed by the history it appended to.
PersistedOrEmpty ==
  [][Appends
       => LET all == <<[id |-> nextId, code |-> generatedCode']>> \o closureHistory
          IN /\ history' = SubSeq(all, 1, Len(history'))
             /\ (stored' = Stored(history') \/ history' = <<>>)]_vars

\* C23 (bounded retries): the loop of saveToHistory, started with a list of L records,
\* calls setItem at most L + 1 times, whatever the store accepts.
LoopBound ==
  [][Appends
       => LET all == <<[id |-> nextId, code |-> generatedCode']>> \o closureHistory
              L == IF Len(all) > maxItems THEN maxItems ELSE Len(all)
              r == SaveToHistory(Head(all), closureHistory)
          IN /\ history' = r.list
             /\ r.writes <= L + 1]_vars

\* a store that rejects every write: the loop has dropped every record
EveryWriteRejected ==
  /\ quota = 0
  /\ status = "SUCCESS"
  /\ history = <<>>
  /\ stored.present /\ stored.list # <<>>

\* the origin of a drag is de-emphasized until the release: the button is still down
DragShown ==
  /\ isDragging
  /\ \E n \in Attached(document.kids) : document.el[n].style.opacity = "0.4"

\* the primary button is pressed on an element, in edit mode, after the release of
\* the gesture before
PressedOn(t) ==
  /\ isEditingMode /\ ~DragShown
  /\ \E pt \in Points : MouseDown(t, 0, pt)

\* the pointer is released, in edit mode, after a press that no movement has turned
\* into a drag
ReleasedWithoutDrag ==
  /\ isEditingMode /\ currentDragElement # Null /\ ~isDragging
  /\ \E t \in Nodes \cup {Html, Null}, above \in BOOLEAN : MouseUp(t, above)

\* C24 (simple click): a press on an element and a release, in edit mode, with no
\* movement beyond the threshold in between, is a click.  In steps: a drag is under
\* way only from a movement beyond the threshold on; a press begins with no drag
\* under way; and a release with no drag under way selects the pressed element,
\* makes it editable, posts one ELEMENT_SELECTED message with its tag, text and
\* colours, and leaves the tree as it is.
PressReleaseIsClick ==
  [][/\ (isDragging' /\ ~isDragging)
          => \E pt \in Points :
               /\ MouseMove(pt)
               /\ (Abs(pt[1] - start[1]) > DragThreshold
                     \/ Abs(pt[2] - start[2]) > DragThreshold)
     /\ \A t \in Elems : PressedOn(t) => ~isDragging'
     /\ ReleasedWithoutDrag
          => LET cde == currentDragElement
             IN /\ selectedElement' = cde
                /\ document'.el[cde].ce = "true"
                /\ document'.kids = document.kids
                /\ Len(toHost') = Len(toHost) + 1
                /\ SubSeq(toHost', 1, Len(toHost)) = toHost
                /\ LET m == toHost'[Len(toHost')]
                   IN /\ m.type = "ELEMENT_SELECTED"
                      /\ m.tag = TagName(document.el[cde].tag)
                      /\ m.textContent = document.el[cde].text
                      /\ m.colors = [bg |-> ComputedBackground(document.el[cde]),
                                     text |-> ComputedColor(document.el[cde])]]_vars

\* no drag session: no pressed element, no drag under way, no element de-emphasized
\* or taken out of the pointer's reach
NoDragSession ==
  /\ currentDragElement = Null
  /\ ~isDragging
  /\ \A n \in Attached(document.kids) :
       /\ document.el[n].style.opacity # "0.4"
       /\ document.el[n].style.pointerEvents # "none"

\* C25 (drag session ends): every pointer-up leaves no drag session.  A pointer-up
\* that changes the runtime must end in such a state; one that changes nothing (as
\* every pointer-up does while edit mode is off) must find the runtime in one.
DragSessionEnds ==
  /\ [][(\E t \in Nodes \cup {Html, Null}, above \in BOOLEAN : MouseUp(t, above))
          => NoDragSession']_vars
  /\ []((Ready /\ ~isEditingMode) => NoDragSession)

\* C26 (selection): the runtime has a selection only in edit mode; the selected
\* element is attached to the live tree and no other element of the tree is editable
\* (the page's own markup has no contenteditable attribute).
SelectionInvariant ==
  selectedElement # Null
    => /\ isEditingMode
       /\ selectedElement \in Attached(document.kids)
       /\ \A n \in Attached(document.kids) :
            document.el[n].ce = "true" <=> n = selectedElement

\* C27 (edit-mode mirroring): the edit-mode flag of the runtime equals the host's
\* isEditing at every moment the iframe is rendered, hence after every toggle and
\* every rebuild, until the next one, whether the SET_EDIT_MODE message of the effect
\* is handled or lost.
EditModeMirrored ==
  mounted => isEditingMode = isEditing

\* the editor was opened on a regenerated page: the rebuilt runtime runs in edit mode
\* and nothing is left to deliver
MirroredAfterRebuild ==
  /\ mounted /\ Ready
  /\ iframeKey > 0 /\ frame.key = iframeKey
  /\ isEditing /\ isEditingMode
  /\ Settled /\ toRuntime = <<>>

\* C28 (selection outline): an element of the live tree that carries the solid
\* selection outline is the selected element (so at most one element carries it).
OutlineMarksSelection ==
  \A n \in Attached(document.kids) :
    document.el[n].style.outline = SelectOutline => n = selectedElement

\* C29 (removal during a generation): the list that a completed generation leaves, in
\* memory and in the store, is what saveToHistory makes of the new record and the
\* history as it is when the generation completes.
AppendsToCurrentHistory ==
  [][Appends
       => LET r == SaveToHistory([id |-> nextId, code |-> generatedCode'], history)
          IN /\ history' = r.list
             /\ r.success => stored' = Stored(r.list)]_vars

\* the node reached from `n` by `steps` steps towards the root (or the end of the
\* way up: the body, or Null above a detached element)
RECURSIVE Up(_, _, _)
Up(k, n, steps) ==
  IF steps = 0 \/ n \notin Elems THEN n ELSE Up(k, ParentNode(k, n), steps - 1)

\* every element is the child of at most one node, at one place, and no element is
\* its own ancestor
WellFormed(k) ==
  \A n \in Elems :
    /\ Cardinality({<<p, i>> \in Nodes \X (1..MaxElems) : i <= Len(k[p]) /\ k[p][i] = n}) <= 1
    /\ Up(k, n, MaxElems) \in {Body, Null}

\* C30 (well-formed tree): every step leaves the live tree well-formed; and a drag
\* released over a descendant of its origin leaves the tree as it is and ends the
\* drag session.
TreeStaysWellFormed ==
  [][/\ WellFormed(document'.kids)
     /\ \A t \in Elems, above \in BOOLEAN :
          (DragReleasedOver(t, above)
             /\ t \in Descendants(document.kids, currentDragElement))
            => /\ document'.kids = document.kids
               /\ ~isDragging'
               /\ currentDragElement' = Null]_vars

=============================================================================
